---- MODULE Spec2Model ----
(***************************************************************************)
(* Soft EM fit of a Gaussian mixture (06_SIS/python/EMGM.py).              *)
(*                                                                         *)
(* Numbers.  A numpy float is modelled as a record [c, n, d]: c = "fin"    *)
(* is the exact rational n/d (d > 0, lowest terms), and c = "nan", "pinf", *)
(* "ninf" are the IEEE special values, with the IEEE rules for them.       *)
(* Rounding is not modelled; the sign of zero is not modelled.  A value    *)
(* that the code keeps in the logarithmic domain (logpdf, T, logR, the     *)
(* argument of exp, the result of log) is kept as the rational whose      *)
(* natural logarithm it is: [c |-> "fin", n, d] then stands for ln(n/d),   *)
(* "ninf" for ln(0).  np.log and np.exp switch between the two readings,   *)
(* + and - of logarithms are * and / of the rationals, and the order is    *)
(* the same in both readings.                                              *)
(*                                                                         *)
(* The samples are one-dimensional (d = 1): X is a sequence of integers.   *)
(* A covariance Sigma[j] is kept as its scatter term, si[j] = Sigma[j] -   *)
(* 1e-6: the prior is a positive constant, so Sigma[j] is NaN exactly when *)
(* si[j] is, and is positive whenever si[j] is finite (si[j] >= 0 then).   *)
(***************************************************************************)
EXTENDS Integers, Sequences, FiniteSets, TLC

VARIABLES
    pc,         \* where EMGM is: "init", "loop", "done", "error"
    inp,        \* the inputs of the fit
    R,          \* the responsibility matrix
    par,        \* [mu, si, pi] of the latest maximization; call: which call
    older,      \* history: par before the latest maximization
    degen,      \* history: some maximization met a component with nk = 0
    llh,        \* the log-likelihood trace, indices 0..maxiter-1
    t,          \* the iteration count
    converged,
    out,        \* the printed line
    ret,        \* the returned [mu, si, pi]
    err,        \* the exception that ended the fit
    nMax,       \* history: maximization calls made
    nExp,       \* history: expectation calls that returned
    seen,       \* history: the llh of the latest expectation calls, newest first
    tested,     \* history: the latest convergence test
    touched,    \* history: the indices of llh the latest iteration used
    fn,         \* a helper called on its own: which, its input, its result
    fnIn,
    fnOut

vars == <<pc, inp, R, par, older, degen, llh, t, converged, out, ret, err,
          nMax, nExp, seen, tested, touched, fn, fnIn, fnOut>>

----------------------------------------------------------------------------
(* IEEE arithmetic on exact rationals *)

RECURSIVE GCD(_, _)
GCD(a, b) == IF b = 0 THEN a ELSE GCD(b, a % b)

AbsInt(x) == IF x < 0 THEN 0 - x ELSE x

NaN == [c |-> "nan", n |-> 0, d |-> 1]

PInf == [c |-> "pinf", n |-> 0, d |-> 1]

NInf == [c |-> "ninf", n |-> 0, d |-> 1]

Fin(n, d) ==
    LET s == IF d < 0 THEN 0 - 1 ELSE 1
        g == GCD(AbsInt(n), AbsInt(d))
    IN  [c |-> "fin", n |-> (s * n) \div g, d |-> (s * d) \div g]

Zero == Fin(0, 1)

One == Fin(1, 1)

isfinite(a) == a.c = "fin"

IsNaN(a) == a.c = "nan"

\* -1, 0, 1: the sign of a value that is not NaN
Sign(a) ==
    CASE a.c = "pinf" -> 1
      [] a.c = "ninf" -> 0 - 1
      [] OTHER -> IF a.n > 0 THEN 1 ELSE IF a.n < 0 THEN 0 - 1 ELSE 0

Signed(s) == IF s > 0 THEN PInf ELSE NInf

Neg(a) ==
    CASE a.c = "nan" -> NaN
      [] a.c = "pinf" -> NInf
      [] a.c = "ninf" -> PInf
      [] OTHER -> Fin(0 - a.n, a.d)

Add(a, b) ==
    CASE IsNaN(a) \/ IsNaN(b) -> NaN
      [] isfinite(a) /\ isfinite(b) -> Fin(a.n * b.d + b.n * a.d, a.d * b.d)
      [] isfinite(a) -> b
      [] isfinite(b) -> a
      [] OTHER -> IF a.c = b.c THEN a ELSE NaN

Sub(a, b) == Add(a, Neg(b))

Mul(a, b) ==
    CASE IsNaN(a) \/ IsNaN(b) -> NaN
      [] isfinite(a) /\ isfinite(b) -> Fin(a.n * b.n, a.d * b.d)
      [] OTHER -> IF Sign(a) * Sign(b) = 0 THEN NaN ELSE Signed(Sign(a) * Sign(b))

\* division as numpy does it: x/0 is +-inf, 0/0 is NaN, no exception
Div(a, b) ==
    CASE IsNaN(a) \/ IsNaN(b) -> NaN
      [] isfinite(a) /\ isfinite(b) ->
            IF b.n # 0 THEN Fin(a.n * b.d, a.d * b.n)
            ELSE IF a.n = 0 THEN NaN ELSE Signed(Sign(a))
      [] isfinite(a) -> Zero
      [] isfinite(b) -> IF Sign(b) < 0 THEN Neg(a) ELSE a
      [] OTHER -> NaN

Abs(a) == IF IsNaN(a) THEN NaN ELSE IF Sign(a) < 0 THEN Neg(a) ELSE a

\* a < b; every comparison with NaN is false
Less(a, b) ==
    CASE IsNaN(a) \/ IsNaN(b) -> FALSE
      [] isfinite(a) /\ isfinite(b) -> a.n * b.d < b.n * a.d
      [] a.c = "ninf" -> b.c # "ninf"
      [] b.c = "pinf" -> a.c # "pinf"
      [] OTHER -> FALSE

RECURSIVE SumTo(_, _)
SumTo(s, k) == IF k = 0 THEN Zero ELSE Add(SumTo(s, k - 1), s[k])

\* np.sum of a vector
Sum(s) == SumTo(s, Len(s))

\* np.max of a vector: NaN when any entry is NaN
RECURSIVE MaxTo(_, _)
MaxTo(s, k) ==
    IF k = 1 THEN s[1]
    ELSE LET m == MaxTo(s, k - 1)
         IN  CASE IsNaN(m) \/ IsNaN(s[k]) -> NaN
               [] Less(m, s[k]) -> s[k]
               [] OTHER -> m

Max(s) == MaxTo(s, Len(s))

----------------------------------------------------------------------------
(* the logarithmic domain *)

\* np.log: log(0) = -inf, log of a negative number is NaN
Log(a) ==
    CASE a.c = "nan" \/ a.c = "ninf" -> NaN
      [] a.c = "pinf" -> PInf
      [] OTHER -> IF a.n < 0 THEN NaN ELSE IF a.n = 0 THEN NInf ELSE a

\* np.exp: exp(-inf) = 0
Exp(l) ==
    CASE l.c = "nan" -> NaN
      [] l.c = "pinf" -> PInf
      [] l.c = "ninf" -> Zero
      [] OTHER -> l

\* the sum of two logarithms
LAdd(a, b) ==
    CASE IsNaN(a) \/ IsNaN(b) -> NaN
      [] isfinite(a) /\ isfinite(b) -> Fin(a.n * b.n, a.d * b.d)
      [] isfinite(a) -> b
      [] isfinite(b) -> a
      [] OTHER -> IF a.c = b.c THEN a ELSE NaN

\* the difference of two logarithms
LSub(a, b) ==
    CASE IsNaN(a) \/ IsNaN(b) -> NaN
      [] isfinite(a) /\ isfinite(b) -> Fin(a.n * b.d, a.d * b.n)
      [] isfinite(a) -> Neg(b)
      [] isfinite(b) -> a
      [] OTHER -> IF a.c = b.c THEN NaN ELSE a

----------------------------------------------------------------------------
(* bounds of the model and constants of the program *)

\* greatest number of components nGM a caller asks for
MaxGM == 2

\* greatest weight of a sample
MaxW == 2

\* tol (1e-5) as a rational
tol == Fin(1, 100000)

maxiter == 500

----------------------------------------------------------------------------
(* the helpers of the fit.  A matrix is a sequence of rows. *)

\* the vector <<F(1), ..., F(n)>> and the n x k matrix of the F(i, j)
RECURSIVE Seal(_, _)
Seal(f, n) == IF n = 0 THEN <<>> ELSE Append(Seal(f, n - 1), f[n])

Vec(n, F(_)) == Seal([i \in 1..n |-> F(i)], n)

Mat(n, k, F(_, _)) == Vec(n, LAMBDA i : Vec(k, LAMBDA j : F(i, j)))

Cols(m) == Len(m[1])

Column(m, j) == Vec(Len(m), LAMBDA i : m[i][j])

\* dummyvar(idx): one row per label, max(idx)+1 columns, a 1 in column idx[i]
RECURSIVE MaxLabelTo(_, _)
MaxLabelTo(idx, k) ==
    IF k = 1 THEN idx[1]
    ELSE LET m == MaxLabelTo(idx, k - 1) IN IF idx[k] > m THEN idx[k] ELSE m

dummyvar(idx) ==
    LET n == MaxLabelTo(idx, Len(idx)) + 1
    IN  Mat(Len(idx), n, LAMBDA i, j : IF j = idx[i] + 1 THEN One ELSE Zero)

\* logsumexp(x, 1): one value per row of x
LseRaw(x) ==
    LET n == Len(x)
        k == Cols(x)
        y == Vec(n, LAMBDA i : Max(x[i]))
        xs == Mat(n, k, LAMBDA i, j : LSub(x[i][j], y[i]))
        tmp1 == Mat(n, k, LAMBDA i, j : Exp(xs[i][j]))
        tmp2 == Vec(n, LAMBDA i : Sum(tmp1[i]))
        tmp3 == Vec(n, LAMBDA i : Log(tmp2[i]))
    IN  [y |-> y, s |-> Vec(n, LAMBDA i : LAdd(y[i], tmp3[i]))]

logsumexp_nofix(x) == LseRaw(x).s

logsumexp(x) ==
    LET r == LseRaw(x)
    IN  Vec(Len(x), LAMBDA i : IF ~isfinite(r.y[i]) THEN r.y[i] ELSE r.s[i])

\* (Xo*sqrtR)*(Xo*sqrtR) for one sample: the square root of a negative number
\* is NaN, and sqrt(r)*sqrt(r) is r otherwise
XoSquared(xo, r) ==
    IF IsNaN(r) \/ Sign(r) < 0 THEN NaN ELSE Mul(Mul(xo, xo), r)

\* Sigma + np.eye(d)*(1e-6), kept as the scatter term s it is added to
AddPrior(s) == s

\* R = W*R: the weight of sample i times row i
Reweight_none(W, Rm) == Rm

Reweight(W, Rm) ==
    Mat(Len(Rm), Cols(Rm), LAMBDA i, j : Mul(Fin(W[i], 1), Rm[i][j]))

\* maximization(X, W, R) for d = 1: [mu, si, pi], one entry per column of R
\* (and nk, which the code keeps to itself)
maximization(X, W, Rm) ==
    LET Rw == Reweight(W, Rm)
        n == Len(X)
        k == Cols(Rw)
        nk == Vec(k, LAMBDA j : Sum(Column(Rw, j)))
        sumW == Sum(Vec(Len(W), LAMBDA i : Fin(W[i], 1)))
        w == Vec(k, LAMBDA j : Div(nk[j], sumW))
        mu == Vec(k, LAMBDA j :
                 Div(Sum(Vec(n, LAMBDA i : Mul(Fin(X[i], 1), Rw[i][j]))), nk[j]))
        Xo == Mat(n, k, LAMBDA i, j : Sub(Fin(X[i], 1), mu[j]))
        Sigma == Vec(k, LAMBDA j :
                    AddPrior(Div(Sum(Vec(n, LAMBDA i : XoSquared(Xo[i][j], Rw[i][j]))),
                                 nk[j])))
    IN  [mu |-> mu, si |-> Sigma, pi |-> w, nk |-> nk]

\* loggausspdf(X, mu, Sigma) for d = 1.  dcol is the log-density of every
\* sample under a finite mu and a finite positive Sigma: its value is an input
\* of the model.  np.linalg.cholesky of a NaN matrix raises LinAlgError or
\* returns NaN, by the LAPACK build: chol is "raise" or "nan".
loggausspdf(dcol, mu, Sigma, chol) ==
    LET n == Len(dcol)
        all(v) == [raised |-> FALSE, y |-> Vec(n, LAMBDA i : v)]
    IN  CASE IsNaN(Sigma) ->
               IF chol = "raise" THEN [raised |-> TRUE, y |-> <<>>] ELSE all(NaN)
          [] Sigma.c = "ninf" \/ (isfinite(Sigma) /\ Sign(Sigma) < 0) ->
               [raised |-> TRUE, y |-> <<>>]
          [] Sigma.c = "pinf" -> IF isfinite(mu) THEN all(NInf) ELSE all(NaN)
          [] OTHER ->
               CASE IsNaN(mu) -> all(NaN)
                 [] isfinite(mu) -> [raised |-> FALSE, y |-> dcol]
                 [] OTHER -> all(NInf)

\* np.sum(W*T)/np.sum(W): the special values follow the arithmetic; a finite
\* result has the value lf, the log-likelihood of the fit at this step
WeightedMean(W, T, lf) ==
    LET shape(v) == IF isfinite(v) THEN Zero ELSE v
        q == Div(Sum(Vec(Len(W), LAMBDA i : Mul(Fin(W[i], 1), shape(T[i])))),
                 Sum(Vec(Len(W), LAMBDA i : Fin(W[i], 1))))
    IN  IF isfinite(q) THEN lf ELSE q

\* expectation(X, W, mu, si, pi): dens[i][j] is the input log-density of
\* sample i under component j
expectation(dens, W, mu, si, pi, chol, lf) ==
    LET n == Len(dens)
        k == Len(mu)
        g == Vec(k, LAMBDA j : loggausspdf(Column(dens, j), mu[j], si[j], chol))
    IN  IF \E j \in 1..k : g[j].raised
        THEN [raised |-> TRUE, R |-> <<>>, T |-> <<>>, llh |-> NaN]
        ELSE LET logpdf == Mat(n, k, LAMBDA i, j : LAdd(g[j].y[i], Log(pi[j])))
                 T == logsumexp(logpdf)
                 logR == Mat(n, k, LAMBDA i, j : LSub(logpdf[i][j], T[i]))
             IN  [raised |-> FALSE,
                  R |-> Mat(n, k, LAMBDA i, j : Exp(logR[i][j])),
                  T |-> T,
                  llh |-> WeightedMean(W, T, lf)]

----------------------------------------------------------------------------
(* the inputs of a fit *)

\* the samples X (d = 1) and their number n
XData == <<0, 1>>

NS == Len(XData)

\* the weights W: all 1, or 0 for the first sample
WKinds == {"ones", "first0"}

Weights(kind) ==
    Vec(NS, LAMBDA i : IF kind = "first0" /\ i = 1 THEN 0 ELSE 1)

\* The log-density of sample i under component j while mu and Sigma are
\* finite.  "even": every sample is as near to every component; "split":
\* each sample is within reach of one component only; "far1": component 1 is
\* out of reach of every sample; "lost1": sample 1 is out of reach of every
\* component (the quadratic term overflows).  With these the exact
\* responsibilities recur from one iteration to the next.
DensKinds == {"even", "split", "far1", "lost1"}

Dens(kind, k) ==
    Mat(NS, k, LAMBDA i, j :
        CASE kind = "even" -> Fin(1, 2)
          [] kind = "split" -> IF (i - 1) % k = j - 1 THEN Fin(1, 2) ELSE NInf
          [] kind = "far1" -> IF j = 1 THEN NInf ELSE Fin(1, 2)
          [] OTHER -> IF i = 1 THEN NInf ELSE Fin(1, 2))

\* The finite log-likelihood of the e-th expectation step.  It rises by
\* LlhGap a step until step stab and by LlhCreep a step from then on;
\* stab = 0: it rises by LlhGap for ever.
LlhMag == 300000

LlhGap == 10

LlhCreep == 1

StabSet == {0, 1, maxiter - 3, maxiter - 2}

LlhAt(stab, e) ==
    IF stab = 0 THEN Fin((0 - LlhMag) + LlhGap * e, 1)
    ELSE IF e <= stab THEN Fin((0 - LlhMag) - LlhGap * (stab - e), 1)
    ELSE Fin((0 - LlhMag) + LlhCreep * (e - stab), 1)

Inputs ==
    [nGM : 1..MaxGM, W : {Weights(k) : k \in WKinds}, dens : DensKinds, stab : StabSet]

\* the label vectors kmeans2 can return: labels 0..nGM-1, a cluster may be empty
Labels(nGM) == [1..NS -> 0..(nGM - 1)]

\* np.linalg.cholesky of a matrix that holds NaN raises LinAlgError or returns
\* NaN, by the LAPACK build
CholOutcomes(si) ==
    IF \E j \in 1..Len(si) : IsNaN(si[j]) THEN {"raise", "nan"} ELSE {"nan"}

NoPar == [mu |-> <<>>, si |-> <<>>, pi |-> <<>>, call |-> 0]

NoTest == [it |-> 0, ia |-> 0, ib |-> 0, a |-> NaN, b |-> NaN, pass |-> FALSE]

NoOut == [msg |-> "", steps |-> 0]

FnIdle == fn = "" /\ fnIn = <<>> /\ fnOut = <<>>

----------------------------------------------------------------------------
(* EMGM *)

Init ==
    /\ pc = "init"
    /\ inp \in Inputs
    /\ R = <<>> /\ par = NoPar /\ older = NoPar /\ degen = FALSE /\ llh = <<>> /\ t = 0 /\ converged = FALSE
    /\ out = NoOut /\ ret = NoPar /\ err = ""
    /\ nMax = 0 /\ nExp = 0 /\ seen = <<>> /\ tested = NoTest /\ touched = {}
    /\ FnIdle

\* initialization(X, nGM)
initialization(idx) == dummyvar(idx)

\* lines 31-40
Start ==
    /\ pc = "init"
    /\ \E idx \in Labels(inp.nGM) : R' = initialization(idx)
    /\ llh' = [i \in 0..(maxiter - 1) |-> NInf]
    /\ converged' = FALSE
    /\ t' = 0
    /\ pc' = "loop"
    /\ UNCHANGED <<inp, par, older, degen, out, ret, err, nMax, nExp, seen, tested,
                   touched, fn, fnIn, fnOut>>

\* eps < tol*abs(llh[t-1]), eps = abs(llh[t-1] - llh[t-2])
ConvTest(cur, prev) == Less(Abs(Sub(cur, prev)), Mul(tol, Abs(cur)))

\* the indices the test of iteration t1 reads
TestCur(t1) == t1 - 1

TestPrev(t1) == t1 - 2

\* the index the result of iteration t1 is written to
StoreAt(t1) == t1

\* one pass of the while loop, lines 43-56
Iterate ==
    /\ pc = "loop" /\ ~converged /\ t < maxiter
    /\ \E m \in {maximization(XData, inp.W, R)} :
       \E chol \in CholOutcomes(m.si) :
       \E e \in {expectation(Dens(inp.dens, Len(m.mu)), inp.W, m.mu, m.si, m.pi,
                             chol, LlhAt(inp.stab, t + 1))} :
         LET t1 == t + 1
             ia == TestCur(t1)
             ib == TestPrev(t1)
             conv == IF t1 > 1 THEN ConvTest(llh[ia], llh[ib]) ELSE converged
             reads == IF t1 > 1 THEN {ia, ib} ELSE {}
         IN  /\ t' = t1
             /\ converged' = conv
             /\ tested' = IF t1 > 1
                          THEN [it |-> t1, ia |-> ia, ib |-> ib, a |-> llh[ia],
                                b |-> llh[ib], pass |-> conv]
                          ELSE tested
             /\ par' = [mu |-> m.mu, si |-> m.si, pi |-> m.pi, call |-> nMax + 1]
             /\ older' = par
             /\ degen' = (degen \/ \E j \in 1..Len(m.nk) : m.nk[j] = Zero)
             /\ nMax' = nMax + 1
             /\ IF e.raised
                THEN /\ pc' = "error" /\ err' = "LinAlgError"
                     /\ touched' = reads
                     /\ UNCHANGED <<R, llh, nExp, seen>>
                ELSE /\ R' = e.R
                     /\ nExp' = nExp + 1
                     /\ seen' = SubSeq(<<e.llh>> \o seen, 1,
                                       IF Len(seen) < 2 THEN Len(seen) + 1 ELSE 3)
                     /\ touched' = reads \cup {StoreAt(t1)}
                     /\ IF StoreAt(t1) \in DOMAIN llh
                        THEN /\ llh' = [llh EXCEPT ![StoreAt(t1)] = e.llh]
                             /\ UNCHANGED <<pc, err>>
                        ELSE /\ pc' = "error" /\ err' = "IndexError"
                             /\ UNCHANGED llh
    /\ UNCHANGED <<inp, out, ret, fn, fnIn, fnOut>>

\* what EMGM returns: mu, si, pi as they are at the end of the loop
Returned_older(cur, prev) == prev

Returned(cur, prev) == cur

\* the step count of 'Converged in ... steps.'
StepsReported_t(tt) == tt

StepsReported(tt) == tt - 1

\* lines 59-64
Finish ==
    /\ pc = "loop" /\ (converged \/ t >= maxiter)
    /\ out' = IF converged THEN [msg |-> "Converged", steps |-> StepsReported(t)]
              ELSE [msg |-> "Not converged", steps |-> maxiter]
    /\ ret' = Returned(par, older)
    /\ pc' = "done"
    /\ UNCHANGED <<inp, R, par, older, degen, llh, t, converged, err, nMax, nExp,
                   seen, tested, touched, fn, fnIn, fnOut>>

Next == Start \/ Iterate \/ Finish

Spec == Init /\ [][Next]_vars

----------------------------------------------------------------------------
(* logsumexp and maximization called on their own *)

\* rows and columns of the matrix a helper is called on
FnRows == 2

FnCols == 2

DriverIdle ==
    /\ inp = <<>> /\ R = <<>> /\ par = NoPar /\ older = NoPar /\ degen = FALSE
    /\ llh = <<>> /\ t = 0 /\ converged = FALSE /\ out = NoOut /\ ret = NoPar
    /\ err = "" /\ nMax = 0 /\ nExp = 0 /\ seen = <<>> /\ tested = NoTest
    /\ touched = {}

DriverVars ==
    <<inp, R, par, older, degen, llh, t, converged, out, ret, err, nMax, nExp,
      seen, tested, touched>>

\* all n x k matrices with entries in S
RECURSIVE SeqsOf(_, _)
SeqsOf(S, n) ==
    IF n = 0 THEN {<<>>} ELSE {Append(q, v) : q \in SeqsOf(S, n - 1), v \in S}

MatsOf(RowSet, n) == SeqsOf(RowSet, n)

\* the logarithms a matrix handed to logsumexp holds: ln 0, ln(1/2), ln 2, NaN
LogVals == {NInf, Fin(1, 2), Fin(2, 1), NaN}

LseInputs == MatsOf(SeqsOf(LogVals, FnCols), FnRows)

InitLSE ==
    /\ pc = "call" /\ fn = "logsumexp" /\ fnIn \in LseInputs /\ fnOut = <<>>
    /\ DriverIdle

CallLogsumexp ==
    /\ pc = "call" /\ fn = "logsumexp"
    /\ fnOut' = logsumexp(fnIn)
    /\ pc' = "called"
    /\ UNCHANGED <<fn, fnIn>>
    /\ UNCHANGED DriverVars

SpecLSE == InitLSE /\ [][CallLogsumexp]_vars

\* the rows of a responsibility matrix with k columns: the one-hot rows, the
\* even row, and the row whose j-th entry is j/(1 + ... + k)
StochRows(k) ==
    {Vec(k, LAMBDA j : IF j = h THEN One ELSE Zero) : h \in 1..k}
        \cup {Vec(k, LAMBDA j : Fin(1, k)), Vec(k, LAMBDA j : Fin(2 * j, k * (k + 1)))}

MaxInputs ==
    [X : {Vec(FnRows, LAMBDA i : i - 1)},
     W : SeqsOf(0..MaxW, FnRows),
     R : MatsOf(StochRows(FnCols), FnRows)]

InitM ==
    /\ pc = "call" /\ fn = "maximization" /\ fnIn \in MaxInputs /\ fnOut = <<>>
    /\ DriverIdle

CallMaximization ==
    /\ pc = "call" /\ fn = "maximization"
    /\ fnOut' = maximization(fnIn.X, fnIn.W, fnIn.R)
    /\ pc' = "called"
    /\ UNCHANGED <<fn, fnIn>>
    /\ UNCHANGED DriverVars

SpecM == InitM /\ [][CallMaximization]_vars

----------------------------------------------------------------------------
(* the properties *)

\* C1: a fit whose convergence test never passes ends, when the iteration
\* count reaches maxiter, by returning the latest [mu, si, pi] with the
\* 'Not converged' line, and not by an exception.  (Fits that a failed
\* Cholesky factorisation ends are left aside.)
C1_ExhaustedReturns ==
    (t = maxiter /\ ~converged /\ pc # "loop" /\ err # "LinAlgError")
        => (pc = "done" /\ out.msg = "Not converged" /\ ret = par)

\* C2: once iteration t >= 2 is complete, the convergence test has been made
\* in that iteration, on the log-likelihood of this iteration's expectation
\* and the one before it, and the loop ends exactly if that test passes.
C2_TestOnThisIteration ==
    (pc = "loop" /\ t >= 2 /\ Len(seen) >= 2)
        => /\ tested.it = t
           /\ tested.a = seen[1]
           /\ tested.b = seen[2]
           /\ converged = ConvTest(seen[1], seen[2])

\* C3: from the initialization on, R has nGM columns, and so have mu, si and
\* pi of every maximization and of the returned result.
C3_ComponentCountIsNGM ==
    /\ pc # "init" => Cols(R) = inp.nGM
    /\ nMax > 0 => /\ Len(par.mu) = inp.nGM
                   /\ Len(par.si) = inp.nGM
                   /\ Len(par.pi) = inp.nGM
    /\ pc = "done" => Len(ret.pi) = inp.nGM

HasNaNComponent(p) ==
    \E j \in 1..Len(p.mu) : IsNaN(p.mu[j]) /\ IsNaN(p.si[j])

\* C4: once a maximization has met a component of zero mass, the fit raises
\* no exception, some component of mu and si is NaN from then on, and so it
\* is in the returned result.  (Stated for the builds whose Cholesky
\* factorisation lets NaN through; where it raises, the fit ends at once.)
C4_DegenerateIsSilent ==
    (degen /\ err # "LinAlgError")
        => /\ pc # "error"
           /\ HasNaNComponent(par)
           /\ pc = "done" => HasNaNComponent(ret)

AllNInf(row) == \A j \in 1..Len(row) : row[j] = NInf

Plain(row) ==
    /\ \E j \in 1..Len(row) : isfinite(row[j])
    /\ \A j \in 1..Len(row) : row[j].c \in {"fin", "ninf"}

\* max + log(sum(exp(x - max))) of one row
ShiftedFormula(row) ==
    LET m == Max(row)
    IN  LAdd(m, Log(Sum(Vec(Len(row), LAMBDA j : Exp(LSub(row[j], m))))))

\* log(sum(exp(x))) of one row
NaiveFormula(row) == Log(Sum(Vec(Len(row), LAMBDA j : Exp(row[j]))))

\* C5: logsumexp(x, 1) is -inf for a row of x that is all -inf, and for a
\* row with a finite entry and neither +inf nor NaN it is max +
\* log(sum(exp(x - max))), which is log(sum(exp(x))).
C5_Logsumexp ==
    (fn = "logsumexp" /\ pc = "called") =>
        \A i \in 1..Len(fnIn) :
            /\ AllNInf(fnIn[i]) => fnOut[i] = NInf
            /\ Plain(fnIn[i]) => /\ fnOut[i] = ShiftedFormula(fnIn[i])
                                 /\ fnOut[i] = NaiveFormula(fnIn[i])
                                 /\ isfinite(fnOut[i])

C5_Witness ==
    /\ fn = "logsumexp" /\ pc = "called"
    /\ AllNInf(fnIn[1]) /\ fnOut[1] = NInf
    /\ Plain(fnIn[2]) /\ fnIn[2][1] # fnIn[2][2] /\ fnOut[2] = Fin(5, 2)

ValidPar(p) ==
    /\ \A j \in 1..Len(p.mu) : isfinite(p.mu[j]) /\ isfinite(p.si[j]) /\ isfinite(p.pi[j])
    /\ Sum(p.pi) = One

\* C6: every row of the R that expectation returns for finite mu and Sigma
\* and mixing weights that sum to 1 sums to 1 (and so holds no NaN).
C6_RowsSumToOne ==
    (nMax >= 1 /\ nExp = nMax /\ ValidPar(par))
        => \A i \in 1..Len(R) : Sum(R[i]) = One

RowStochastic(m) == \A i \in 1..Len(m) : Sum(m[i]) = One

Within01(v) == isfinite(v) /\ ~Less(v, Zero) /\ ~Less(One, v)

SumW(W) == Sum(Vec(Len(W), LAMBDA i : Fin(W[i], 1)))

PiIsDistribution(o) ==
    /\ Sum(o.pi) = One
    /\ Sum(o.nk) = SumW(fnIn.W)
    /\ \A j \in 1..Len(o.pi) : Within01(o.pi[j])

\* C7 as stated: for every non-negative W and every R whose rows sum to 1,
\* the pi of maximization sums to 1, sum(nk) = sum(W), each pi[j] in [0, 1].
C7_PiSumsToOne_AnyW ==
    (fn = "maximization" /\ pc = "called" /\ RowStochastic(fnIn.R))
        => PiIsDistribution(fnOut)

\* C7 amended: the same for every non-negative W whose sum is positive.
C7_PiSumsToOne ==
    (fn = "maximization" /\ pc = "called" /\ RowStochastic(fnIn.R)
        /\ Less(Zero, SumW(fnIn.W)))
        => PiIsDistribution(fnOut)

C7_Witness ==
    /\ fn = "maximization" /\ pc = "called" /\ RowStochastic(fnIn.R)
    /\ fnIn.W[1] = 0 /\ fnIn.W[2] = MaxW
    /\ fnIn.R[1] # fnIn.R[2]
    /\ \E j \in 1..Len(fnOut.pi) : Less(Zero, fnOut.pi[j]) /\ Less(fnOut.pi[j], One)
    /\ PiIsDistribution(fnOut)

\* C8: what EMGM returns is the output of the latest maximization call.
C8_ReturnsLatest ==
    pc = "done" => (ret = par /\ ret.call = nMax /\ nMax >= 1)

C8_Witness ==
    pc = "done" /\ ret.call = nMax /\ older.call = nMax - 1 /\ nMax >= 3

\* C9: when 'Converged in s steps' is printed, s + 1 maximization and s + 1
\* expectation calls have been made, s >= 2, and the test that passed was
\* made in iteration s + 1 on the log-likelihoods of iterations s and s - 1;
\* the test of iteration 2 reads the -inf at index 0 and does not pass.
C9_ConvergedSteps ==
    /\ out.msg = "Converged" =>
          /\ nMax = out.steps + 1
          /\ nExp = out.steps + 1
          /\ out.steps >= 2
          /\ tested.pass
          /\ tested.it = out.steps + 1
          /\ tested.ia = out.steps /\ tested.a = seen[2]
          /\ tested.ib = out.steps - 1 /\ tested.b = seen[3]
    /\ tested.it = 2 => (tested.ib = 0 /\ tested.b = NInf /\ ~tested.pass)

C9_Witness ==
    /\ out.msg = "Converged" /\ out.steps = 2 /\ nMax = 3 /\ nExp = 3
    /\ tested.pass /\ isfinite(tested.a) /\ tested.a # tested.b

\* C10: every index of llh that an iteration reads or writes lies in
\* 0..maxiter-1.
C10_TraceIndexInRange ==
    \A i \in touched : i \in 0..(maxiter - 1)

====
